---------------------------- MODULE Spec2Model ----------------------------
(***************************************************************************)
(* Model of aui-tts-piper.                                                 *)
(*                                                                         *)
(*   src/src/aui_tts_piper.py          asynchronous adapter  PiperTTS      *)
(*   src/src/aui_adapter_tts_piper.py  synchronous stub      PiperTTS      *)
(*                                                                         *)
(* The adapter's coroutines run on one event loop; every coroutine runs    *)
(* atomically up to its next await.  The only awaits are the two           *)
(* asyncio.to_thread offloads, whose blocking routine runs on a pool       *)
(* thread at any later moment and whose awaiting coroutine is resumed at   *)
(* any moment after that.  A call is therefore three steps: enter          *)
(* (up to the await), bg (the blocking routine), resume (after the await). *)
(*                                                                         *)
(* A bytes value is kept run-length encoded: a sequence of runs            *)
(* [byte, n], n > 0, so that b"\x00\x00" * 2205 is one run of 4410 zero    *)
(* bytes and b"" is the empty sequence.                                    *)
(***************************************************************************)
EXTENDS Integers, Sequences, FiniteSets, TLC

VARIABLES
    run,          \* the adapter instance, its calls in flight, the call just ended
    twin,         \* SpecPair: a second execution of the same calls, every
                  \* token absent (left as constructed under Spec)
    hook,         \* normalize_to_canon is not None (module global)
    hist,         \* history of the calls of run: what happened around them
    _speaking,    \* the stub's flag
    stdout,       \* the lines the stub has printed
    stub_calls    \* history: the calls made on the stub

vars == <<run, twin, hook, hist, _speaking, stdout, stub_calls>>

\* ---------------------------------------------------------------- bounds
MaxInFlight == 2    \* adapter calls that have entered and not yet ended
MaxPairInFlight == 1 \* the same, when the calls are made twice (SpecPair)
MaxStubCalls == 5   \* calls made on the stub

\* ------------------------------------------------------------- constants
DefaultRate == 22050
CanonRate == 16000

\* Python's None; every other object below is a record too
None == [none |-> TRUE]
Rates == {DefaultRate, 15, 7}
Texts == {"hi", "yo"}
\* cancel argument: absent, a token not cancelled, a cancelled token
Tokens == {None, [is_cancelled |-> FALSE], [is_cancelled |-> TRUE]}
candidates == {"piper", "piper_tts", "piper-tts"}
\* what find_spec finds: nothing, or one of the candidates
Probes == {{}} \cup {{n} : n \in candidates}
NotInstalled ==
    [type |-> "RuntimeError", msg |-> "Piper-TTS ist nicht installiert."]

\* ------------------------------------------------------------ bytes, PCM
\* unit * count for a one-byte-valued unit of unit_len bytes
BytesRepeat(byte, unit_len, count) ==
    IF count <= 0 THEN <<>> ELSE <<[byte |-> byte, n |-> unit_len * count]>>

RECURSIVE BytesLen(_)
BytesLen(data) ==
    IF data = <<>> THEN 0 ELSE Head(data).n + BytesLen(Tail(data))

AllZero(data) == \A i \in 1..Len(data) : data[i].byte = 0

PcmAudio(data, rate, channels, width) ==
    [data |-> data, rate |-> rate, channels |-> channels, width |-> width]

IsPcm(v) == DOMAIN v = {"data", "rate", "channels", "width"}

\* the external converter's contract: s16le / 16 kHz / mono, same duration
normalize_to_canon(pcm) ==
    LET frames == BytesLen(pcm.data) \div (pcm.width * pcm.channels)
        out == (frames * CanonRate) \div pcm.rate
    IN  PcmAudio(BytesRepeat(0, 2, out), CanonRate, 1, 2)

\* ------------------------------------------------------- adapter methods
__init__(sample_rate) ==
    [_rate |-> sample_rate, _engine |-> None, _stopped |-> FALSE]

\* mutant: the test inverted
_require_piper_inverted(found) ==
    IF \E n \in candidates : n \in found THEN NotInstalled ELSE None

\* None when a candidate is found, else the error raised
_require_piper(found) ==
    IF \E n \in candidates : n \in found THEN None ELSE NotInstalled

\* the instance after the routine (its body is `pass`)
_init_blocking(self) == self

\* mutant: the stop flag is not read
_synth_blocking_ignores_stop(self, text, cancel) ==
    PcmAudio(BytesRepeat(0, 2, self._rate \div 10), self._rate, 1, 2)

\* mutant: one byte per sample
_synth_blocking_one_byte(self, text, cancel) ==
    IF self._stopped
    THEN PcmAudio(<<>>, self._rate, 1, 2)
    ELSE PcmAudio(BytesRepeat(0, 1, self._rate \div 10), self._rate, 1, 2)

\* mutant: the token is consulted at entry
_synth_blocking_polls_token(self, text, cancel) ==
    IF self._stopped \/ cancel = [is_cancelled |-> TRUE]
    THEN PcmAudio(<<>>, self._rate, 1, 2)
    ELSE PcmAudio(BytesRepeat(0, 2, self._rate \div 10), self._rate, 1, 2)

_synth_blocking(self, text, cancel) ==
    IF self._stopped
    THEN PcmAudio(<<>>, self._rate, 1, 2)
    ELSE LET n_samples == self._rate \div 10
             silence == BytesRepeat(0, 2, n_samples)
         IN  PcmAudio(silence, self._rate, 1, 2)

\* mutant: the hook's exception is not caught
synth_tail_propagates(pcm, has_hook, hook_raises) ==
    IF has_hook /\ hook_raises
    THEN [ret |-> None,
          err |-> [type |-> "Exception", msg |-> "normalize_to_canon failed"]]
    ELSE IF has_hook
    THEN [ret |-> normalize_to_canon(pcm), err |-> None]
    ELSE [ret |-> pcm, err |-> None]

\* mutant: nothing is returned after the hook raised
synth_tail_none_on_error(pcm, has_hook, hook_raises) ==
    IF has_hook /\ hook_raises
    THEN [ret |-> None, err |-> None]
    ELSE IF has_hook
    THEN [ret |-> normalize_to_canon(pcm), err |-> None]
    ELSE [ret |-> pcm, err |-> None]

\* what synth does with the awaited pcm: [ret, err]; the hook's exception is
\* caught and the pcm returned as it is
synth_tail(pcm, has_hook, hook_raises) ==
    IF has_hook /\ ~hook_raises
    THEN [ret |-> normalize_to_canon(pcm), err |-> None]
    ELSE [ret |-> pcm, err |-> None]

NewCall(op, text, cancel) ==
    [op |-> op, text |-> text, cancel |-> cancel, pc |-> "to_thread",
     pcm |-> None, synth_ret |-> None, ret |-> None, err |-> None]

\* a call that raised before its first await: only the exception is left
Raised(op, e) ==
    [NewCall(op, None, None) EXCEPT !.pc = "raised", !.err = e]

RemoveAt(seq, i) == SubSeq(seq, 1, i - 1) \o SubSeq(seq, i + 1, Len(seq))

\* preload() up to its await
preload_enter(st, found) ==
    LET e == _require_piper(found)
    IN  IF e # None
        THEN [st EXCEPT !.done = Raised("preload", e)]
        ELSE [st EXCEPT !.calls = Append(@, NewCall("preload", None, None)),
                        !.done = None]

\* mutant: the stop flag is not cleared
synth_enter_keeps_flag(st, op, text, cancel, found) ==
    IF _require_piper(found) # None
    THEN [st EXCEPT !.done = Raised(op, _require_piper(found))]
    ELSE [st EXCEPT !.calls = Append(@, NewCall(op, text, cancel)),
                    !.done = None]

\* synth(text, cancel) up to its await; say(text, cancel) is the same steps
synth_enter(st, op, text, cancel, found) ==
    LET e == _require_piper(found)
    IN  IF e # None
        THEN [st EXCEPT !.done = Raised(op, e)]
        ELSE [st EXCEPT !.self._stopped = FALSE,
                        !.calls = Append(@, NewCall(op, text, cancel)),
                        !.done = None]

\* mutant: the flag is not set
stop_forgets_flag(st) == [st EXCEPT !.done = None]

stop(st) == [st EXCEPT !.self._stopped = TRUE, !.done = None]

\* the pool thread runs the offloaded routine of call i
bg_run(st, i) ==
    LET c == st.calls[i]
    IN  IF c.op = "preload"
        THEN [st EXCEPT !.self = _init_blocking(st.self),
                        !.calls[i].pc = "thread_done",
                        !.done = None]
        ELSE [st EXCEPT !.calls[i].pc = "thread_done",
                        !.calls[i].pcm = _synth_blocking(st.self, c.text, c.cancel),
                        !.done = None]

\* the coroutine of call i continues after its await, to its end
resume(st, i, has_hook, hook_raises) ==
    LET c == st.calls[i]
        t == synth_tail(c.pcm, has_hook, hook_raises)
        end == IF c.op = "preload"
               THEN [c EXCEPT !.pc = "returned"]
               ELSE [c EXCEPT !.pc = IF t.err = None THEN "returned" ELSE "raised",
                              !.err = t.err,
                              !.synth_ret = t.ret,
                              !.ret = IF c.op = "synth" THEN t.ret ELSE None]
    IN  [st EXCEPT !.calls = RemoveAt(@, i), !.done = end]

\* ------------------------------------------------------------ stub methods
stub_say(text) ==
    /\ _speaking' = TRUE
    /\ stdout' = Append(stdout, [line |-> "[Piper] say: ", text |-> text])

\* mutant: the line is printed whatever the flag
stub_stop_always_prints ==
    /\ stdout' = Append(stdout, [line |-> "[Piper] stop", text |-> ""])
    /\ _speaking' = FALSE

stub_stop ==
    /\ stdout' = IF _speaking
                 THEN Append(stdout, [line |-> "[Piper] stop", text |-> ""])
                 ELSE stdout
    /\ _speaking' = FALSE

\* ---------------------------------------------------------------- actions
\* hist.calls[i] belongs to run.calls[i], hist.done to run.done:
\*   found_any          the probe found a candidate when the call entered
\*   stop_before_enter  some stop() ran before the call entered
\*   stop_since_enter   some stop() ran after it entered, before its routine began
\*   clear_since_stop   another synth cleared the flag after the latest such stop,
\*                      before the routine began
\*   stop_during        some stop() ran after it entered, before it ended
\*   norm               what the hook did: "absent", "ok", "raised"
\*   flag_at_end        _stopped when the call ended
\* hist.any_stop: some stop() has run; hist.stop_since_start: some stop() has
\* run since the most recent synth passed its availability check.
StubIdle == /\ _speaking = FALSE /\ stdout = <<>> /\ stub_calls = <<>>
StubVars == <<_speaking, stdout, stub_calls>>

Entered(found) ==
    [found_any |-> found # {}, stop_before_enter |-> hist.any_stop,
     stop_since_enter |-> FALSE, clear_since_stop |-> FALSE,
     stop_during |-> FALSE, norm |-> "n/a", flag_at_end |-> None]

\* the history after a call entered; the new call is in flight iff in_flight
HistEnter(found, in_flight, clears) ==
    LET seen == [i \in 1..Len(hist.calls) |->
                   IF clears /\ run.calls[i].pc = "to_thread"
                             /\ hist.calls[i].stop_since_enter
                   THEN [hist.calls[i] EXCEPT !.clear_since_stop = TRUE]
                   ELSE hist.calls[i]]
    IN  IF in_flight
        THEN [hist EXCEPT !.calls = Append(seen, Entered(found)), !.done = None,
                          !.stop_since_start = IF clears THEN FALSE ELSE @]
        ELSE [hist EXCEPT !.calls = seen, !.done = Entered(found)]

HistStop ==
    [hist EXCEPT
       !.any_stop = TRUE,
       !.stop_since_start = TRUE,
       !.done = None,
       !.calls = [i \in 1..Len(hist.calls) |->
                    IF run.calls[i].pc = "to_thread"
                    THEN [hist.calls[i] EXCEPT !.stop_since_enter = TRUE,
                                               !.clear_since_stop = FALSE,
                                               !.stop_during = TRUE]
                    ELSE [hist.calls[i] EXCEPT !.stop_during = TRUE]]]

Init ==
    /\ \E r \in Rates : run = [self |-> __init__(r), calls |-> <<>>, done |-> None]
    /\ twin = run
    /\ hook \in BOOLEAN
    /\ hist = [any_stop |-> FALSE, stop_since_start |-> FALSE,
               calls |-> <<>>, done |-> None]
    /\ StubIdle

\* pair: the calls are also made on twin; limit: the calls in flight allowed
Preload(found, pair, limit) ==
    /\ Len(run.calls) < limit
    /\ run' = preload_enter(run, found)
    /\ twin' = IF pair THEN preload_enter(twin, found) ELSE twin
    /\ hist' = HistEnter(found, Len(run'.calls) > Len(run.calls), FALSE)
    /\ UNCHANGED <<hook, StubVars>>

Synth(op, text, cancel, found, pair, limit) ==
    /\ Len(run.calls) < limit
    /\ run' = synth_enter(run, op, text, cancel, found)
    /\ twin' = IF pair THEN synth_enter(twin, op, text, None, found) ELSE twin
    /\ hist' = HistEnter(found, Len(run'.calls) > Len(run.calls),
                         Len(run'.calls) > Len(run.calls))
    /\ UNCHANGED <<hook, StubVars>>

Stop(pair) ==
    /\ run' = stop(run)
    /\ twin' = IF pair THEN stop(twin) ELSE twin
    /\ hist' = HistStop
    /\ UNCHANGED <<hook, StubVars>>

Bg(i, pair) ==
    /\ run.calls[i].pc = "to_thread"
    /\ run' = bg_run(run, i)
    /\ twin' = IF pair THEN bg_run(twin, i) ELSE twin
    /\ hist' = [hist EXCEPT !.done = None]
    /\ UNCHANGED <<hook, StubVars>>

Resume(i, hook_raises, pair) ==
    /\ run.calls[i].pc = "thread_done"
    /\ run' = resume(run, i, hook, hook_raises)
    /\ twin' = IF pair THEN resume(twin, i, hook, hook_raises) ELSE twin
    /\ hist' = [hist EXCEPT
                  !.calls = RemoveAt(@, i),
                  !.done = [hist.calls[i] EXCEPT
                              !.flag_at_end = run.self._stopped,
                              !.norm = IF run.calls[i].op = "preload" THEN "n/a"
                                       ELSE IF ~hook THEN "absent"
                                       ELSE IF hook_raises THEN "raised"
                                       ELSE "ok"]]
    /\ UNCHANGED <<hook, StubVars>>

StubSay(text) ==
    /\ Len(stub_calls) < MaxStubCalls
    /\ stub_say(text)
    /\ stub_calls' = Append(stub_calls, [op |-> "say", text |-> text])
    /\ UNCHANGED <<run, twin, hook, hist>>

StubStop ==
    /\ Len(stub_calls) < MaxStubCalls
    /\ stub_stop
    /\ stub_calls' = Append(stub_calls, [op |-> "stop", text |-> ""])
    /\ UNCHANGED <<run, twin, hook, hist>>

\* one step of the adapter, the cancel argument drawn from tokens
Step(tokens, pair, limit) ==
    \/ \E found \in Probes : Preload(found, pair, limit)
    \/ \E op \in {"synth", "say"}, text \in Texts, cancel \in tokens,
          found \in Probes : Synth(op, text, cancel, found, pair, limit)
    \/ Stop(pair)
    \/ \E i \in 1..Len(run.calls) : Bg(i, pair)
    \/ \E i \in 1..Len(run.calls), hook_raises \in BOOLEAN :
          /\ hook_raises => hook /\ run.calls[i].op # "preload"
          /\ Resume(i, hook_raises, pair)

Next == Step({None}, FALSE, MaxInFlight)
Spec == Init /\ [][Next]_vars

\* the same calls made twice: with any tokens (run), with none (twin)
NextPair == Step(Tokens, TRUE, MaxPairInFlight)
SpecPair == Init /\ [][NextPair]_vars

\* the stub alone
NextStub == (\E text \in Texts : StubSay(text)) \/ StubStop
SpecStub == Init /\ [][NextStub]_vars

\* ----------------------------------------------------------------- claims
d == run.done
h == hist.done
IsSynth(c) == c.op \in {"synth", "say"}
\* the call's blocking routine has run
RoutineRan(c) == IsSynth(c) /\ c.pc \in {"thread_done", "returned"}
\* the call just ended is a synth (or the synth inside a say) that returned
SynthReturned == d # None /\ IsSynth(d) /\ d.pc = "returned"
Configured(v) == v.rate = run.self._rate /\ v.channels = 1 /\ v.width = 2
\* a stop() set the flag after the call's own clear and nothing cleared it
\* again before the call's routine began
StopPending(hc) == hc.stop_since_enter /\ ~hc.clear_since_stop
\* 0.1 s of 16-bit mono silence, the sample count truncated
FullSilence(v) ==
    /\ BytesLen(v.data) = 2 * (run.self._rate \div 10)
    /\ AllZero(v.data)
    /\ Configured(v)
\* every call whose routine has run, with its history
Ran == {<<run.calls[i], hist.calls[i]>> : i \in {j \in 1..Len(run.calls) :
                                                  RoutineRan(run.calls[j])}}
       \cup (IF d # None /\ RoutineRan(d) THEN {<<d, h>>} ELSE {})

\* C1 as stated, taken without the optional hook (which may change the
\* rate): a stop() that ran before the routine of a later synth began makes
\* that synth return the empty PCM at the configured rate, mono, width 2.
C1_Original ==
    SynthReturned /\ h.norm = "absent"
                  /\ (h.stop_before_enter \/ h.stop_since_enter)
        => BytesLen(d.synth_ret.data) = 0 /\ Configured(d.synth_ret)

\* C1 amended: if stop() set the flag after the synth cleared it and no other
\* synth cleared it again before the routine began, the synth returns a PCM
\* with empty payload, 1 channel, width 2, at the configured rate unless the
\* normalization hook succeeded.
C1_StopBeforeRoutine ==
    SynthReturned /\ StopPending(h)
        => /\ BytesLen(d.synth_ret.data) = 0
           /\ d.synth_ret.channels = 1 /\ d.synth_ret.width = 2
           /\ h.norm \in {"absent", "raised"} => Configured(d.synth_ret)

C1_Witness ==
    /\ SynthReturned /\ StopPending(h) /\ d.op = "synth"
    /\ h.norm = "absent" /\ d.ret.data = <<>> /\ run.self._rate = DefaultRate

\* C2: every synth that returns returns a PCM value (never None) with width 2
\* and 1 channel, whatever the text, the earlier calls and the hook did.
C2_SynthReturnsPcm ==
    SynthReturned
        => /\ d.synth_ret # None /\ IsPcm(d.synth_ret)
           /\ d.synth_ret.width = 2 /\ d.synth_ret.channels = 1

C2_Witness ==
    /\ SynthReturned /\ h.norm = "raised" /\ IsPcm(d.synth_ret)
    /\ hist.any_stop /\ Len(run.calls) > 0

\* C3 as stated: with no stop() since the last synth start the placeholder
\* returns exactly sample_rate * 0.1 * 2 zero bytes, configured rate, mono,
\* width 2.
C3_Original ==
    \A x \in Ran : ~StopPending(x[2])
        => /\ 10 * BytesLen(x[1].pcm.data) = 2 * run.self._rate
           /\ AllZero(x[1].pcm.data) /\ Configured(x[1].pcm)

\* C3 amended: with no stop() since the last synth start the placeholder
\* returns exactly 2 * floor(sample_rate / 10) zero bytes, configured rate,
\* mono, width 2.
C3_Silence == \A x \in Ran : ~StopPending(x[2]) => FullSilence(x[1].pcm)

C3_Witness ==
    /\ run.self._rate = 22050
    /\ \E x \in Ran : ~StopPending(x[2]) /\ BytesLen(x[1].pcm.data) = 4410

\* C4: a preload, synth or say made when no candidate is found raises the
\* engine-not-installed error and never gets a routine scheduled or run.
C4_NotInstalled ==
    /\ \A i \in 1..Len(run.calls) : hist.calls[i].found_any
    /\ d # None /\ ~h.found_any
          => d.pc = "raised" /\ d.err = NotInstalled /\ d.pcm = None

C4_Witness ==
    /\ d # None /\ ~h.found_any /\ d.op = "preload" /\ d.err = NotInstalled
    /\ \E i \in 1..Len(run.calls) : run.calls[i].op = "say"

\* C5: a synth whose routine ran returns, never raises: the routine's value
\* itself when the hook raised or is absent, the hook's result when it
\* succeeded.
C5_Normalization ==
    d # None /\ IsSynth(d) /\ d.pcm # None
        => /\ d.pc = "returned" /\ d.err = None
           /\ h.norm \in {"raised", "absent"} => d.synth_ret = d.pcm
           /\ h.norm = "ok" => d.synth_ret = normalize_to_canon(d.pcm)
           /\ h.norm \in {"raised", "absent", "ok"}

C5_Witness ==
    /\ SynthReturned /\ h.norm = "raised" /\ d.synth_ret = d.pcm
    /\ d.pcm.data # <<>> /\ normalize_to_canon(d.pcm) # d.pcm

\* C6: the stub speaks exactly when its latest call was say; say prints one
\* line with the text; stop prints a line iff the call before it was say.
RECURSIVE StubExpected(_)
StubExpected(cs) ==
    IF cs = <<>> THEN <<>>
    ELSE LET n == Len(cs)
             before == StubExpected(SubSeq(cs, 1, n - 1))
         IN  IF cs[n].op = "say"
             THEN Append(before, [line |-> "[Piper] say: ", text |-> cs[n].text])
             ELSE IF n > 1 /\ cs[n - 1].op = "say"
             THEN Append(before, [line |-> "[Piper] stop", text |-> ""])
             ELSE before

C6_Stub ==
    /\ _speaking = (stub_calls # <<>> /\ stub_calls[Len(stub_calls)].op = "say")
    /\ stdout = StubExpected(stub_calls)
    /\ Len(stub_calls) < MaxStubCalls
          => ENABLED StubStop /\ \A t \in Texts : ENABLED StubSay(t)

C6_Witness ==
    /\ Len(stub_calls) = 4 /\ Len(stdout) = 3 /\ ~_speaking
    /\ stub_calls[2].op = "say" /\ stub_calls[3].op = "stop"
    /\ stub_calls[4].op = "stop"

\* C7: once a preload has returned, the adapter holds an engine handle.
C7_PreloadStoresEngine ==
    d # None /\ d.op = "preload" /\ d.pc = "returned" => run.self._engine # None

EraseToken(c) == IF c = None THEN c ELSE [c EXCEPT !.cancel = None]
EraseTokens(st) ==
    [st EXCEPT !.calls = [i \in 1..Len(st.calls) |-> EraseToken(st.calls[i])],
               !.done = EraseToken(st.done)]

C9_TokenIgnored ==
    /\ EraseTokens(run) = twin
    /\ \A x \in Ran : x[1].cancel = [is_cancelled |-> TRUE] /\ ~StopPending(x[2])
          => FullSilence(x[1].pcm)

C9_Witness ==
    /\ SynthReturned /\ d.op = "synth" /\ d.cancel = [is_cancelled |-> TRUE]
    /\ twin.done.cancel = None /\ twin.done.ret = d.ret
    /\ BytesLen(d.ret.data) > 0 /\ twin.self = run.self

\* C10: a synth whose routine began with a stop() pending (no other synth
\* start since that stop) yields the empty buffer; one whose pending stop was
\* cleared by another synth's start yields the full silence buffer.
C10_SharedFlag ==
    /\ \A x \in Ran :
          /\ StopPending(x[2]) => BytesLen(x[1].pcm.data) = 0
          /\ x[2].stop_since_enter /\ x[2].clear_since_stop
                => FullSilence(x[1].pcm)
    /\ SynthReturned /\ StopPending(h) => BytesLen(d.synth_ret.data) = 0

\* the lost stop: A cleared, stop() set, B cleared, A's routine ran
C10_Witness ==
    /\ SynthReturned /\ h.stop_since_enter /\ h.clear_since_stop
    /\ BytesLen(d.synth_ret.data) > 0
    /\ \E i \in 1..Len(run.calls) : IsSynth(run.calls[i])

=============================================================================
